---- MODULE Spec2Model ----
(***************************************************************************)
(* A model of the Monkey front end: the Pratt parser of src/parser/lib.rs  *)
(* and the bytecode compiler of src/compiler/compiler.rs.                  *)
(*                                                                         *)
(* The compiler is modelled as a small-step machine: `compiler` is the     *)
(* Compiler struct, `stack` is the Rust call stack of the activations of   *)
(* compile / compile_stmt / compile_expr / compile_block_statement, and    *)
(* every action is one straight-line stretch of one of these functions.    *)
(* The parser is modelled by recursive operators over a token sequence,    *)
(* one action per iteration of parse_program's loop.                       *)
(***************************************************************************)
EXTENDS Integers, Sequences, FiniteSets, TLC

VARIABLES
    compiler,   \* the Compiler struct: instructions, constants, last_instruction,
                \* previous_instruction, symbol_table
    stack,      \* activations of the compile functions, innermost last
    error,      \* the Err value travelling up the call stack, NoError if none
    result,     \* outcome of the current compile call
    calls,      \* compile calls started in this session
    nstmts,     \* top-level statements handed to the compiler in this session
    parser,     \* the Parser struct: the token source, its position, errors
    program,    \* the statements parse_program has pushed so far
    presult,    \* outcome of parse
    source      \* the statements the token stream was lexed from

vars == <<compiler, stack, error, result, calls, nstmts, parser, program, presult, source>>
cvars == <<compiler, stack, error, result, calls, nstmts>>
pvars == <<parser, program, presult, source>>

(***************************************************************************)
(* Bounds of the model.                                                    *)
(***************************************************************************)
MaxStmts == 3
MaxCalls == 2
MaxControlStmts == 2
MaxSource == 2
MaxOps == 3
MaxPeepholeStmts == 2

(***************************************************************************)
(* Instruction encoding (module op_code): one opcode byte followed by the  *)
(* opcode's fixed-width big-endian operands.                               *)
(***************************************************************************)
Opcodes ==
    << "OpConst", "OpPop", "OpAdd", "OpSub", "OpMul", "OpDiv", "OpTrue",
       "OpFalse", "OpEqual", "OpNotEqual", "OpGreaterThan", "OpMinus",
       "OpBang", "OpJumpNotTruthy", "OpJump", "OpNull", "OpGetGlobal",
       "OpSetGlobal", "OpArray", "OpHash" >>

OpcodeByte(op) == (CHOOSE i \in DOMAIN Opcodes : Opcodes[i] = op) - 1

cast_u8_to_opcode(b) == Opcodes[b + 1]

WideOpcodes ==
    { "OpConst", "OpJumpNotTruthy", "OpJump", "OpGetGlobal", "OpSetGlobal",
      "OpArray", "OpHash" }

OperandWidth(op) == IF op \in WideOpcodes THEN 2 ELSE 0

BigEndian16(n) == << (n \div 256) % 256, n % 256 >>

make_instructions(op, operands) ==
    IF OperandWidth(op) = 2 /\ Len(operands) >= 1
    THEN << OpcodeByte(op) >> \o BigEndian16(operands[1])
    ELSE << OpcodeByte(op) >>

ReadOperand(ins, pos) == ins[pos + 2] * 256 + ins[pos + 3]

(***************************************************************************)
(* Symbol table (module symbol_table): a flat map from name to index.      *)
(***************************************************************************)
EmptySymbolTable == [n \in {} |-> 0]

define(table, name) ==
    [n \in (DOMAIN table) \cup {name} |->
        IF n = name THEN Cardinality(DOMAIN table) ELSE table[n]]

Resolves(table, name) == name \in DOMAIN table

(***************************************************************************)
(* AST (module parser::ast), as the compiler reads it.                     *)
(***************************************************************************)
Ident(n) == [t |-> "IDENTIFIER", name |-> n]
IntLit(i) == [t |-> "Integer", raw |-> i]
BoolLit(b) == [t |-> "Boolean", raw |-> b]
StrLit(s) == [t |-> "String", raw |-> s]
Array(es) == [t |-> "Array", elements |-> es]
Hash(kvs) == [t |-> "Hash", elements |-> kvs]
Prefix(o, e) == [t |-> "PREFIX", op |-> o, operand |-> e]
Infix(o, l, r) == [t |-> "INFIX", op |-> o, left |-> l, right |-> r]
If(c, cons) == [t |-> "IF", condition |-> c, consequent |-> cons, alternate |-> <<>>]
IfElse(c, cons, alt) ==
    [t |-> "IF", condition |-> c, consequent |-> cons, alternate |-> <<alt>>]
Function == [t |-> "FUNCTION"]
FunctionCall == [t |-> "FunctionCall"]
Index == [t |-> "Index"]
Let(n, e) == [t |-> "Let", identifier |-> n, expr |-> e]
Return(e) == [t |-> "Return", expr |-> e]
Expr(e) == [t |-> "Expr", expr |-> e]

(***************************************************************************)
(* The Compiler struct and its methods.                                    *)
(***************************************************************************)
EmittedInstruction(op, pos) == [opcode |-> op, position |-> pos]

new_with_state_fresh_pool(symbol_table, constants) ==
    [ instructions |-> <<>>,
      constants |-> <<>>,
      last_instruction |-> EmittedInstruction("OpNull", 0),
      previous_instruction |-> EmittedInstruction("OpNull", 0),
      symbol_table |-> symbol_table ]

new_with_state(symbol_table, constants) ==
    [ instructions |-> <<>>,
      constants |-> constants,
      last_instruction |-> EmittedInstruction("OpNull", 0),
      previous_instruction |-> EmittedInstruction("OpNull", 0),
      symbol_table |-> symbol_table ]

new == new_with_state(EmptySymbolTable, <<>>)

add_constant(self, obj) == [self EXCEPT !.constants = Append(@, obj)]

add_instructions(self, ins) == [self EXCEPT !.instructions = @ \o ins]

\* set_last_instruction that does not move last_instruction to previous_instruction
set_last_instruction_only(self, op, pos) ==
    [self EXCEPT !.last_instruction = EmittedInstruction(op, pos)]

set_last_instruction(self, op, pos) ==
    [self EXCEPT !.previous_instruction = self.last_instruction,
                 !.last_instruction = EmittedInstruction(op, pos)]

emit(self, op, operands) ==
    set_last_instruction(add_instructions(self, make_instructions(op, operands)),
                         op, Len(self.instructions))

last_instruction_is(self, op) == self.last_instruction.opcode = op

remove_last_pop(self) ==
    [self EXCEPT !.instructions = SubSeq(@, 1, Len(@) - 1),
                 !.last_instruction = self.previous_instruction]

\* replace_instruction splicing ins in at pos
replace_instruction_spliced(self, pos, ins) ==
    [self EXCEPT !.instructions =
        SubSeq(@, 1, pos) \o ins \o SubSeq(@, pos + 1, Len(@))]

replace_instruction(self, pos, ins) ==
    [self EXCEPT !.instructions =
        [k \in 1..Len(@) |->
            IF k > pos /\ k <= pos + Len(ins) THEN ins[k - pos] ELSE @[k]]]

change_operand_shifted(self, pos, operand) ==
    replace_instruction(self, pos + 1,
        make_instructions(cast_u8_to_opcode(self.instructions[pos + 1]), <<operand>>))

change_operand(self, pos, operand) ==
    replace_instruction(self, pos,
        make_instructions(cast_u8_to_opcode(self.instructions[pos + 1]), <<operand>>))

(***************************************************************************)
(* Call stack.                                                             *)
(***************************************************************************)
NoError == <<>>
Placeholder == 9527

Frame(pc, node) ==
    [pc |-> pc, node |-> node, i |-> 0, jump_not_truthy |-> 0, jump_pos |-> 0]

Top == stack[Len(stack)]
Popped == SubSeq(stack, 1, Len(stack) - 1)
Running == result.kind = "running" /\ error = NoError /\ stack # <<>>
At(pc) == Running /\ Top.pc = pc
AtExpr(t) == At("expr") /\ Top.node.t = t
AtStmt(t) == At("stmt") /\ Top.node.t = t

Goto(pc) == stack' = [stack EXCEPT ![Len(stack)].pc = pc]
Call(pc, callee) ==
    stack' = Append([stack EXCEPT ![Len(stack)].pc = pc], callee)
ReturnOk == stack' = Popped
ReturnErr(e) == stack' = Popped /\ error' = e


(***************************************************************************)
(* Compiler::compile over a Node::Program.  The statements of p.body are   *)
(* drawn from `stmts` as the loop reaches them; the compile activation     *)
(* keeps in `node` the part of p.body it has gone through.                 *)
(***************************************************************************)
Compile(max) ==
    /\ result.kind \in {"idle", "ok", "err"}
    /\ calls < max
    /\ compiler' = new_with_state(compiler.symbol_table, compiler.constants)
    /\ stack' = << Frame("compile", <<>>) >>
    /\ result' = [kind |-> "running", msg |-> NoError]
    /\ error' = NoError
    /\ calls' = calls + 1
    /\ UNCHANGED <<nstmts, pvars>>

CompileNextStmt(stmts, max) ==
    /\ At("compile")
    /\ nstmts < max
    /\ \E s \in stmts :
          stack' = << [Top EXCEPT !.node = Append(@, s)], Frame("stmt", s) >>
    /\ nstmts' = nstmts + 1
    /\ UNCHANGED <<compiler, error, result, calls, pvars>>

CompileReturnBytecode ==
    /\ At("compile")
    /\ stack' = <<>>
    /\ result' = [kind |-> "ok", msg |-> NoError]
    /\ UNCHANGED <<compiler, error, calls, nstmts, pvars>>

(***************************************************************************)
(* Compiler::compile_stmt                                                  *)
(***************************************************************************)
StmtLet ==
    /\ AtStmt("Let")
    /\ Call("let_define", Frame("expr", Top.node.expr))
    /\ UNCHANGED <<compiler, error, result, calls, nstmts, pvars>>

StmtLetDefine ==
    /\ At("let_define")
    /\ LET table == define(compiler.symbol_table, Top.node.identifier)
           self == [compiler EXCEPT !.symbol_table = table]
       IN  compiler' = emit(self, "OpSetGlobal", << table[Top.node.identifier] >>)
    /\ ReturnOk
    /\ UNCHANGED <<error, result, calls, nstmts, pvars>>

\* a return statement compiled as an expression statement
StmtReturn_as_expression ==
    /\ AtStmt("Return")
    /\ Call("expr_pop", Frame("expr", Top.node.expr))
    /\ UNCHANGED <<compiler, error, result, calls, nstmts, pvars>>

StmtReturn ==
    /\ AtStmt("Return")
    /\ ReturnOk
    /\ UNCHANGED <<compiler, error, result, calls, nstmts, pvars>>

StmtExpr ==
    /\ AtStmt("Expr")
    /\ Call("expr_pop", Frame("expr", Top.node.expr))
    /\ UNCHANGED <<compiler, error, result, calls, nstmts, pvars>>

StmtExprPop ==
    /\ At("expr_pop")
    /\ compiler' = emit(compiler, "OpPop", <<>>)
    /\ ReturnOk
    /\ UNCHANGED <<error, result, calls, nstmts, pvars>>

(***************************************************************************)
(* Compiler::compile_expr                                                  *)
(***************************************************************************)
ExprIdentifier ==
    /\ AtExpr("IDENTIFIER")
    /\ IF Resolves(compiler.symbol_table, Top.node.name)
       THEN /\ compiler' = emit(compiler, "OpGetGlobal",
                                << compiler.symbol_table[Top.node.name] >>)
            /\ ReturnOk
            /\ UNCHANGED error
       ELSE /\ ReturnErr(<< "Undefined variable", Top.node.name >>)
            /\ UNCHANGED compiler
    /\ UNCHANGED <<result, calls, nstmts, pvars>>

ExprInteger ==
    /\ AtExpr("Integer")
    /\ LET self == add_constant(compiler, << "Integer", Top.node.raw >>)
       IN  compiler' = emit(self, "OpConst", << Len(self.constants) - 1 >>)
    /\ ReturnOk
    /\ UNCHANGED <<error, result, calls, nstmts, pvars>>

ExprBoolean ==
    /\ AtExpr("Boolean")
    /\ compiler' = emit(compiler, IF Top.node.raw THEN "OpTrue" ELSE "OpFalse", <<>>)
    /\ ReturnOk
    /\ UNCHANGED <<error, result, calls, nstmts, pvars>>

ExprString ==
    /\ AtExpr("String")
    /\ LET self == add_constant(compiler, << "String", Top.node.raw >>)
       IN  compiler' = emit(self, "OpConst", << Len(self.constants) - 1 >>)
    /\ ReturnOk
    /\ UNCHANGED <<error, result, calls, nstmts, pvars>>

ExprArray ==
    /\ AtExpr("Array")
    /\ Goto("array")
    /\ UNCHANGED <<compiler, error, result, calls, nstmts, pvars>>

ExprArrayElement ==
    /\ At("array")
    /\ Top.i < Len(Top.node.elements)
    /\ stack' = Append([stack EXCEPT ![Len(stack)].i = @ + 1],
                       Frame("expr", Top.node.elements[Top.i + 1]))
    /\ UNCHANGED <<compiler, error, result, calls, nstmts, pvars>>

ExprArrayEmit ==
    /\ At("array")
    /\ Top.i = Len(Top.node.elements)
    /\ compiler' = emit(compiler, "OpArray", << Len(Top.node.elements) >>)
    /\ ReturnOk
    /\ UNCHANGED <<error, result, calls, nstmts, pvars>>

ExprHash ==
    /\ AtExpr("Hash")
    /\ Goto("hash_key")
    /\ UNCHANGED <<compiler, error, result, calls, nstmts, pvars>>

ExprHashKey ==
    /\ At("hash_key")
    /\ Top.i < Len(Top.node.elements)
    /\ Call("hash_value", Frame("expr", Top.node.elements[Top.i + 1][1]))
    /\ UNCHANGED <<compiler, error, result, calls, nstmts, pvars>>

ExprHashValue ==
    /\ At("hash_value")
    /\ stack' = Append([stack EXCEPT ![Len(stack)].i = @ + 1,
                                     ![Len(stack)].pc = "hash_key"],
                       Frame("expr", Top.node.elements[Top.i + 1][2]))
    /\ UNCHANGED <<compiler, error, result, calls, nstmts, pvars>>

ExprHashEmit ==
    /\ At("hash_key")
    /\ Top.i = Len(Top.node.elements)
    /\ compiler' = emit(compiler, "OpHash", << Len(Top.node.elements) * 2 >>)
    /\ ReturnOk
    /\ UNCHANGED <<error, result, calls, nstmts, pvars>>

ExprPrefix ==
    /\ AtExpr("PREFIX")
    /\ Call("prefix_op", Frame("expr", Top.node.operand))
    /\ UNCHANGED <<compiler, error, result, calls, nstmts, pvars>>

PrefixOpcode(kind) ==
    CASE kind = "MINUS" -> "OpMinus"
      [] kind = "BANG" -> "OpBang"
      [] OTHER -> "none"

ExprPrefixOp ==
    /\ At("prefix_op")
    /\ IF PrefixOpcode(Top.node.op) # "none"
       THEN /\ compiler' = emit(compiler, PrefixOpcode(Top.node.op), <<>>)
            /\ ReturnOk
            /\ UNCHANGED error
       ELSE /\ ReturnErr(<< "unexpected prefix op", Top.node.op >>)
            /\ UNCHANGED compiler
    /\ UNCHANGED <<result, calls, nstmts, pvars>>

ExprInfix ==
    /\ AtExpr("INFIX")
    /\ IF Top.node.op = "LT"
       THEN Call("lt_left", Frame("expr", Top.node.right))
       ELSE Call("infix_right", Frame("expr", Top.node.left))
    /\ UNCHANGED <<compiler, error, result, calls, nstmts, pvars>>

ExprInfixLtLeft ==
    /\ At("lt_left")
    /\ Call("lt_emit", Frame("expr", Top.node.left))
    /\ UNCHANGED <<compiler, error, result, calls, nstmts, pvars>>

ExprInfixLtEmit ==
    /\ At("lt_emit")
    /\ compiler' = emit(compiler, "OpGreaterThan", <<>>)
    /\ ReturnOk
    /\ UNCHANGED <<error, result, calls, nstmts, pvars>>

ExprInfixRight ==
    /\ At("infix_right")
    /\ Call("infix_op", Frame("expr", Top.node.right))
    /\ UNCHANGED <<compiler, error, result, calls, nstmts, pvars>>

InfixOpcode_minus_as_add(kind) ==
    CASE kind = "PLUS" -> "OpAdd"
      [] kind = "MINUS" -> "OpAdd"
      [] kind = "ASTERISK" -> "OpMul"
      [] kind = "SLASH" -> "OpDiv"
      [] kind = "GT" -> "OpGreaterThan"
      [] kind = "EQ" -> "OpEqual"
      [] kind = "NotEq" -> "OpNotEqual"
      [] OTHER -> "none"

InfixOpcode(kind) ==
    CASE kind = "PLUS" -> "OpAdd"
      [] kind = "MINUS" -> "OpSub"
      [] kind = "ASTERISK" -> "OpMul"
      [] kind = "SLASH" -> "OpDiv"
      [] kind = "GT" -> "OpGreaterThan"
      [] kind = "EQ" -> "OpEqual"
      [] kind = "NotEq" -> "OpNotEqual"
      [] OTHER -> "none"

ExprInfixOp ==
    /\ At("infix_op")
    /\ IF InfixOpcode(Top.node.op) # "none"
       THEN /\ compiler' = emit(compiler, InfixOpcode(Top.node.op), <<>>)
            /\ ReturnOk
            /\ UNCHANGED error
       ELSE /\ ReturnErr(<< "unexpected infix op", Top.node.op >>)
            /\ UNCHANGED compiler
    /\ UNCHANGED <<result, calls, nstmts, pvars>>

ExprIf ==
    /\ AtExpr("IF")
    /\ Call("if_cond", Frame("expr", Top.node.condition))
    /\ UNCHANGED <<compiler, error, result, calls, nstmts, pvars>>

ExprIfConsequent ==
    /\ At("if_cond")
    /\ compiler' = emit(compiler, "OpJumpNotTruthy", << Placeholder >>)
    /\ stack' = Append([stack EXCEPT ![Len(stack)].pc = "if_cons",
                                     ![Len(stack)].jump_not_truthy =
                                          Len(compiler.instructions)],
                       Frame("block", Top.node.consequent))
    /\ UNCHANGED <<error, result, calls, nstmts, pvars>>

AfterBlock(self) ==
    IF last_instruction_is(self, "OpPop") THEN remove_last_pop(self) ELSE self

ExprIfAlternate_early ==
    /\ At("if_cons")
    /\ LET c1 == AfterBlock(compiler)
           c2 == emit(c1, "OpJump", << Placeholder >>)
           c3 == change_operand(c2, Top.jump_not_truthy, Len(c1.instructions))
           fr == [Top EXCEPT !.jump_pos = Len(c1.instructions)]
       IN  IF Top.node.alternate = <<>>
           THEN /\ compiler' = emit(c3, "OpNull", <<>>)
                /\ stack' = Append(Popped, [fr EXCEPT !.pc = "if_patch"])
           ELSE /\ compiler' = c3
                /\ stack' = Popped \o << [fr EXCEPT !.pc = "if_alt"],
                                         Frame("block", Top.node.alternate[1]) >>
    /\ UNCHANGED <<error, result, calls, nstmts, pvars>>

ExprIfAlternate ==
    /\ At("if_cons")
    /\ LET c1 == AfterBlock(compiler)
           c2 == emit(c1, "OpJump", << Placeholder >>)
           c3 == change_operand(c2, Top.jump_not_truthy, Len(c2.instructions))
           fr == [Top EXCEPT !.jump_pos = Len(c1.instructions)]
       IN  IF Top.node.alternate = <<>>
           THEN /\ compiler' = emit(c3, "OpNull", <<>>)
                /\ stack' = Append(Popped, [fr EXCEPT !.pc = "if_patch"])
           ELSE /\ compiler' = c3
                /\ stack' = Popped \o << [fr EXCEPT !.pc = "if_alt"],
                                         Frame("block", Top.node.alternate[1]) >>
    /\ UNCHANGED <<error, result, calls, nstmts, pvars>>

ExprIfAfterAlternate ==
    /\ At("if_alt")
    /\ compiler' = AfterBlock(compiler)
    /\ Goto("if_patch")
    /\ UNCHANGED <<error, result, calls, nstmts, pvars>>

ExprIfPatchJump ==
    /\ At("if_patch")
    /\ compiler' = change_operand(compiler, Top.jump_pos, Len(compiler.instructions))
    /\ Goto("if_ret")
    /\ UNCHANGED <<error, result, calls, nstmts, pvars>>

ExprIfReturn ==
    /\ At("if_ret")
    /\ ReturnOk
    /\ UNCHANGED <<compiler, error, result, calls, nstmts, pvars>>

ExprUnhandled ==
    /\ At("expr")
    /\ Top.node.t \in {"FUNCTION", "FunctionCall", "Index"}
    /\ ReturnOk
    /\ UNCHANGED <<compiler, error, result, calls, nstmts, pvars>>

(***************************************************************************)
(* Compiler::compile_block_statement                                       *)
(***************************************************************************)
BlockNextStmt ==
    /\ At("block")
    /\ Top.i < Len(Top.node)
    /\ stack' = Append([stack EXCEPT ![Len(stack)].i = @ + 1],
                       Frame("stmt", Top.node[Top.i + 1]))
    /\ UNCHANGED <<compiler, error, result, calls, nstmts, pvars>>

BlockReturn ==
    /\ At("block")
    /\ Top.i = Len(Top.node)
    /\ ReturnOk
    /\ UNCHANGED <<compiler, error, result, calls, nstmts, pvars>>

(***************************************************************************)
(* An Err on its way up: `?` hands it to the caller, `.unwrap()` panics.   *)
(***************************************************************************)
UnwrapSites == {"prefix_op", "lt_left", "lt_emit", "infix_right", "infix_op"}

Propagating == result.kind = "running" /\ error # NoError /\ stack # <<>>

QuestionMark ==
    /\ Propagating
    /\ Top.pc \notin UnwrapSites
    /\ stack' = Popped
    /\ result' = IF Top.pc = "compile" THEN [kind |-> "err", msg |-> error] ELSE result
    /\ UNCHANGED <<compiler, error, calls, nstmts, pvars>>

Unwrap ==
    /\ Propagating
    /\ Top.pc \in UnwrapSites
    /\ result' = [kind |-> "panic", msg |-> error]
    /\ UNCHANGED <<compiler, stack, error, calls, nstmts, pvars>>

CompileStep ==
    \/ CompileReturnBytecode
    \/ StmtLet \/ StmtLetDefine \/ StmtReturn \/ StmtExpr \/ StmtExprPop
    \/ ExprIdentifier \/ ExprInteger \/ ExprBoolean \/ ExprString
    \/ ExprArray \/ ExprArrayElement \/ ExprArrayEmit
    \/ ExprHash \/ ExprHashKey \/ ExprHashValue \/ ExprHashEmit
    \/ ExprPrefix \/ ExprPrefixOp
    \/ ExprInfix \/ ExprInfixLtLeft \/ ExprInfixLtEmit \/ ExprInfixRight \/ ExprInfixOp
    \/ ExprIf \/ ExprIfConsequent \/ ExprIfAlternate \/ ExprIfAfterAlternate
    \/ ExprIfPatchJump \/ ExprIfReturn
    \/ ExprUnhandled
    \/ BlockNextStmt \/ BlockReturn
    \/ QuestionMark \/ Unwrap

(***************************************************************************)
(* The programs handed to the compiler.                                    *)
(***************************************************************************)
Names == {"x", "y"}

SessionValues ==
    { IntLit(1), IntLit(2), StrLit("s"), Ident("x"), Ident("y"),
      Array(<< IntLit(1), Ident("y") >>), Prefix("MINUS", Ident("x")) }

SessionStmts ==
    { Let(n, v) : n \in Names, v \in SessionValues }
    \cup { Return(Ident("y")), Return(IntLit(1)), Expr(Ident("x")), Expr(IntLit(2)) }
    \cup { Expr(IfElse(BoolLit(TRUE), << Expr(IntLit(1)) >>, << Let("y", IntLit(2)) >>)),
           Expr(Hash(<< << StrLit("s"), Ident("x") >> >>)),
           Expr(Infix("LT", IntLit(1), Ident("y"))),
           Expr(Infix("BANG", IntLit(1), BoolLit(FALSE))),
           Expr(Prefix("PLUS", Function)) }

InfixKinds == {"PLUS", "MINUS", "ASTERISK", "SLASH", "GT", "LT", "EQ", "NotEq", "BANG"}

Infixes ==
    { Infix(k, IntLit(1), IntLit(2)) : k \in InfixKinds }
    \cup { Infix("LT", BoolLit(TRUE), IntLit(2)), Infix("MINUS", Ident("x"), IntLit(1)),
           Infix("LT", IntLit(1), Ident("x")),
           Infix("PLUS", Infix("LT", IntLit(1), IntLit(2)), IntLit(2)) }

Prefixes ==
    { Prefix("MINUS", IntLit(1)), Prefix("BANG", BoolLit(FALSE)),
      Prefix("MINUS", Ident("x")), Prefix("PLUS", IntLit(1)) }

Blocks ==
    { <<>>, << Expr(IntLit(1)) >>, << Expr(Function) >>, << Let("x", IntLit(2)) >>,
      << Return(IntLit(1)) >>, << Expr(IntLit(1)), Expr(IntLit(2)) >>,
      << Expr(IntLit(1)), Return(IntLit(2)) >>, << Expr(Function), Expr(FunctionCall) >>,
      << Expr(Ident("x")) >> }

ElseBlocks ==
    { <<>>, << Expr(IntLit(2)) >>, << Expr(Index), Expr(Function) >> }

ThenBlocks ==
    { << Expr(IntLit(1)) >>, << Expr(Function) >>, << Let("x", IntLit(2)) >>,
      << Expr(IntLit(1)), Expr(IntLit(2)) >> }

InnerIfs ==
    { If(BoolLit(TRUE), << Expr(IntLit(1)) >>),
      IfElse(BoolLit(FALSE), << Expr(IntLit(1)) >>, << Expr(Function), Expr(Function) >>) }

NestedBlocks ==
    { << Expr(i) >> : i \in InnerIfs }
    \cup { << Let("y", i) >> : i \in InnerIfs }

Ifs ==
    { If(BoolLit(TRUE), b) : b \in Blocks }
    \cup { If(Ident("x"), << Expr(IntLit(1)) >>),
           If(Infix("LT", IntLit(1), IntLit(2)), << Expr(IntLit(1)) >>) }
    \cup { IfElse(BoolLit(TRUE), b, e) : b \in ThenBlocks, e \in ElseBlocks }
    \cup { If(BoolLit(TRUE), b) : b \in NestedBlocks }
    \cup { IfElse(BoolLit(TRUE), << Expr(i) >>, << Expr(i), Expr(IntLit(2)) >>) :
              i \in InnerIfs }

ControlStmts ==
    { Expr(e) : e \in Ifs \cup Infixes \cup Prefixes }
    \cup { Let("x", e) : e \in InnerIfs }
    \cup { Expr(Hash(<< << StrLit("s"), IntLit(1) >>, << IntLit(2), Ident("x") >> >>)),
           Expr(Array(<< IntLit(1), BoolLit(TRUE) >>)),
           Let("x", IntLit(1)), Expr(Function) }

\* programs around the trailing pop of a block: blocks that end with one pop, with
\* two, with none, that are empty, an if whose condition emits nothing, ifs nested
\* in both branches, and the statements that come before and after them
PeepholeIfs ==
    { If(BoolLit(TRUE), b) :
         b \in { <<>>, << Expr(IntLit(1)), Return(IntLit(2)) >>, << Let("x", IntLit(2)) >> } }
    \cup { If(Function, << Expr(Function) >>),
           IfElse(BoolLit(TRUE), << Expr(Function), Expr(FunctionCall) >>,
                  << Expr(Index), Expr(Function) >>) }
    \cup { IfElse(BoolLit(TRUE), << Expr(i) >>, << Expr(i), Expr(IntLit(2)) >>) :
              i \in InnerIfs }

PeepholeStmts ==
    { Expr(e) : e \in PeepholeIfs }
    \cup { Let("x", e) : e \in InnerIfs }
    \cup { Expr(Infix("LT", IntLit(1), Ident("x"))),
           Expr(Infix("PLUS", StrLit("s"), IntLit(2))),
           Expr(Prefix("MINUS", BoolLit(FALSE))),
           Expr(Hash(<< << StrLit("s"), IntLit(1) >> >>)),
           Expr(Array(<< IntLit(1) >>)),
           Expr(Ident("y")) }

(***************************************************************************)
(* Tokens (module lexer): the lexer hands out the tokens of the input and  *)
(* then EOF for ever.                                                      *)
(***************************************************************************)
Tok(kind, lit) == [kind |-> kind, lit |-> lit]
EOFToken == Tok("EOF", "")
TokenAt(toks, i) == IF i <= Len(toks) THEN toks[i] ELSE EOFToken

(***************************************************************************)
(* Precedence tiers (module precedences).                                  *)
(***************************************************************************)
LOWEST == 0
EQUALS == 1
LESSGREATER == 2
SUM == 3
PRODUCT == 4
PREFIX == 5
CALL == 6
INDEX == 7

get_token_precedence(kind) ==
    CASE kind \in {"EQ", "NotEq"} -> EQUALS
      [] kind \in {"LT", "GT"} -> LESSGREATER
      [] kind \in {"PLUS", "MINUS"} -> SUM
      [] kind \in {"ASTERISK", "SLASH"} -> PRODUCT
      [] kind = "LPAREN" -> CALL
      [] kind = "LBRACKET" -> INDEX
      [] OTHER -> LOWEST

(***************************************************************************)
(* The Parser of src/parser/lib.rs.  The parser's current token is the one *)
(* at position pos of the token sequence and its peek token the one after  *)
(* it; every parse function is an operator from the position it is        *)
(* entered at to its result and the position it leaves the parser at.  A   *)
(* result is Ok(value), Err(message) or, where the code unwraps an Err, a  *)
(* panic.                                                                  *)
(***************************************************************************)
Ok(v, p) == [kind |-> "Ok", val |-> v, pos |-> p]
Err(e, p) == [kind |-> "Err", val |-> e, pos |-> p]
Panicked(e, p) == [kind |-> "Panic", val |-> e, pos |-> p]

\* the value of a call, named once: K is applied to the result r
Bind(r, K(_)) == CHOOSE out \in { K(v) : v \in {r} } : TRUE

\* the ? operator: an Err (or a panic) is the caller's result, an Ok goes on
Try(r, K(_)) == CHOOSE out \in { IF v.kind # "Ok" THEN v ELSE K(v) : v \in {r} } : TRUE

FunctionLit(params, body) == [t |-> "FUNCTION", params |-> params, body |-> body]
CallExpr(callee, args) == [t |-> "FunctionCall", callee |-> callee, arguments |-> args]

current_token_is(toks, p, kind) == TokenAt(toks, p).kind = kind
peek_token_is(toks, p, kind) == TokenAt(toks, p + 1).kind = kind

expect_peek(toks, p, kind) ==
    IF TokenAt(toks, p + 1).kind = kind
    THEN Ok(<<>>, p + 1)
    ELSE Err(<< "expected token", kind, TokenAt(toks, p + 1) >>, p + 1)

\* if self.peek_token_is(&TokenKind::SEMICOLON) { self.next_token(); }
skip_semicolon(toks, p) == IF peek_token_is(toks, p, "SEMICOLON") THEN p + 1 ELSE p

InfixOperators == {"PLUS", "MINUS", "ASTERISK", "SLASH", "EQ", "NotEq", "LT", "GT"}

\* the condition of parse_expression's loop, with <= for <
continues_loose(toks, p, precedence) ==
    /\ TokenAt(toks, p + 1).kind # "SEMICOLON"
    /\ precedence <= get_token_precedence(TokenAt(toks, p + 1).kind)

\* the condition of parse_expression's loop
continues(toks, p, precedence) ==
    /\ TokenAt(toks, p + 1).kind # "SEMICOLON"
    /\ precedence < get_token_precedence(TokenAt(toks, p + 1).kind)

RECURSIVE parse_statement(_, _)
RECURSIVE parse_let_statement(_, _)
RECURSIVE parse_return_statement(_, _)
RECURSIVE parse_expression_statement(_, _)
RECURSIVE parse_expression(_, _, _)
RECURSIVE parse_expression_loop(_, _, _, _)
RECURSIVE parse_prefix_expression(_, _)
RECURSIVE parse_infix_expression(_, _, _)
RECURSIVE parse_if_expression(_, _)
RECURSIVE parse_block_statement(_, _)
RECURSIVE parse_block_loop(_, _, _)
RECURSIVE parse_fn_expression(_, _)
RECURSIVE parse_fn_parameters(_, _)
RECURSIVE parse_fn_parameters_loop(_, _, _)
RECURSIVE parse_fn_call_expression(_, _, _)
RECURSIVE parse_expression_list(_, _, _)
RECURSIVE parse_expression_list_loop(_, _, _, _)

parse_statement(toks, p) ==
    CASE TokenAt(toks, p).kind = "LET" -> parse_let_statement(toks, p)
      [] TokenAt(toks, p).kind = "RETURN" -> parse_return_statement(toks, p)
      [] OTHER -> parse_expression_statement(toks, p)

parse_let_statement(toks, p) ==
    LET name == TokenAt(toks, p + 1)
    IN  IF name.kind # "IDENTIFIER" THEN Err(<< "not an identifier" >>, p + 1)
        ELSE Try(expect_peek(toks, p + 1, "ASSIGN"), LAMBDA assign :
             Try(parse_expression(toks, assign.pos + 1, LOWEST), LAMBDA value :
             Ok(Let(name.lit, value.val), skip_semicolon(toks, value.pos))))

parse_return_statement(toks, p) ==
    Try(parse_expression(toks, p + 1, LOWEST), LAMBDA value :
    Ok(Return(value.val), skip_semicolon(toks, value.pos)))

parse_expression_statement(toks, p) ==
    Try(parse_expression(toks, p, LOWEST), LAMBDA expr :
    Ok(Expr(expr.val), skip_semicolon(toks, expr.pos)))

parse_expression(toks, p, precedence) ==
    Try(parse_prefix_expression(toks, p), LAMBDA left :
    parse_expression_loop(toks, left.pos, precedence, left.val))

parse_expression_loop(toks, p, precedence, left) ==
    IF ~continues(toks, p, precedence) THEN Ok(left, p)
    ELSE Bind(parse_infix_expression(toks, p, left), LAMBDA infix :
         CASE infix.kind = "None" -> Ok(left, p)
           [] infix.kind = "Ok" ->
                 parse_expression_loop(toks, infix.pos, precedence, infix.val)
           [] OTHER -> infix)

parse_prefix_expression(toks, p) ==
    LET tok == TokenAt(toks, p)
    IN  CASE tok.kind = "IDENTIFIER" -> Ok(Ident(tok.lit), p)
          [] tok.kind = "INT" -> Ok(IntLit(tok.lit), p)
          [] tok.kind = "STRING" -> Ok(StrLit(tok.lit), p)
          [] tok.kind \in {"TRUE", "FALSE"} -> Ok(BoolLit(tok.kind = "TRUE"), p)
          [] tok.kind \in {"BANG", "MINUS"} ->
                Try(parse_expression(toks, p + 1, PREFIX), LAMBDA expr :
                Ok(Prefix(tok.kind, expr.val), expr.pos))
          [] tok.kind = "LPAREN" ->
                Bind(parse_expression(toks, p + 1, LOWEST), LAMBDA expr :
                IF expr.kind = "Panic" THEN expr
                ELSE Try(expect_peek(toks, expr.pos, "RPAREN"), LAMBDA close :
                     [expr EXCEPT !.pos = close.pos]))
          [] tok.kind = "LBRACKET" ->
                Try(parse_expression_list(toks, p, "RBRACKET"), LAMBDA elements :
                Ok(Array(elements.val), elements.pos))
          [] tok.kind = "IF" -> parse_if_expression(toks, p)
          [] tok.kind = "FUNCTION" -> parse_fn_expression(toks, p)
          [] OTHER -> Err(<< "no prefix function for token", tok >>, p)

parse_infix_expression(toks, p, left) ==
    LET op == TokenAt(toks, p + 1)
    IN  CASE op.kind \in InfixOperators ->
                Bind(parse_expression(toks, p + 2, get_token_precedence(op.kind)),
                     LAMBDA right :
                IF right.kind # "Ok" THEN Panicked(right.val, right.pos)
                ELSE Ok(Infix(op.kind, left, right.val), right.pos))
          [] op.kind = "LPAREN" -> parse_fn_call_expression(toks, p + 1, left)
          [] OTHER -> [kind |-> "None", val |-> <<>>, pos |-> p]

parse_if_expression(toks, p) ==
    Try(expect_peek(toks, p, "LPAREN"), LAMBDA open :
    Try(parse_expression(toks, open.pos + 1, LOWEST), LAMBDA condition :
    Try(expect_peek(toks, condition.pos, "RPAREN"), LAMBDA close :
    Try(expect_peek(toks, close.pos, "LBRACE"), LAMBDA brace :
    Try(parse_block_statement(toks, brace.pos), LAMBDA consequence :
    IF ~peek_token_is(toks, consequence.pos, "ELSE")
    THEN Ok(If(condition.val, consequence.val), consequence.pos)
    ELSE Try(expect_peek(toks, consequence.pos + 1, "LBRACE"), LAMBDA else_brace :
         Try(parse_block_statement(toks, else_brace.pos), LAMBDA alternative :
         Ok(IfElse(condition.val, consequence.val, alternative.val),
            alternative.pos))))))))

parse_block_statement(toks, p) == parse_block_loop(toks, p + 1, <<>>)

parse_block_loop(toks, p, block_statement) ==
    IF current_token_is(toks, p, "RBRACE") \/ current_token_is(toks, p, "EOF")
    THEN Ok(block_statement, p)
    ELSE Bind(parse_statement(toks, p), LAMBDA statement :
         CASE statement.kind = "Panic" -> statement
           [] statement.kind = "Ok" ->
                 parse_block_loop(toks, statement.pos + 1,
                                  Append(block_statement, statement.val))
           [] OTHER -> parse_block_loop(toks, statement.pos + 1, block_statement))

parse_fn_expression(toks, p) ==
    Try(expect_peek(toks, p, "LPAREN"), LAMBDA open :
    Try(parse_fn_parameters(toks, open.pos), LAMBDA params :
    Try(expect_peek(toks, params.pos, "LBRACE"), LAMBDA brace :
    Try(parse_block_statement(toks, brace.pos), LAMBDA function_body :
    Ok(FunctionLit(params.val, function_body.val), function_body.pos)))))

parse_fn_parameters(toks, p) ==
    IF peek_token_is(toks, p, "RPAREN") THEN Ok(<<>>, p + 1)
    ELSE LET tok == TokenAt(toks, p + 1)
         IN  IF tok.kind # "IDENTIFIER"
             THEN Err(<< "expected function params to be an identifier", tok >>, p + 1)
             ELSE parse_fn_parameters_loop(toks, p + 1, << tok.lit >>)

parse_fn_parameters_loop(toks, p, params) ==
    IF peek_token_is(toks, p, "COMMA")
    THEN LET tok == TokenAt(toks, p + 2)
         IN  IF tok.kind # "IDENTIFIER"
             THEN Err(<< "expected function params to be an identifier", tok >>, p + 2)
             ELSE parse_fn_parameters_loop(toks, p + 2, Append(params, tok.lit))
    ELSE Try(expect_peek(toks, p, "RPAREN"), LAMBDA close : Ok(params, close.pos))

parse_fn_call_expression(toks, p, expr) ==
    Try(parse_expression_list(toks, p, "RPAREN"), LAMBDA arguments :
    Ok(CallExpr(expr, arguments.val), arguments.pos))

parse_expression_list(toks, p, end) ==
    IF peek_token_is(toks, p, end) THEN Ok(<<>>, p + 1)
    ELSE Try(parse_expression(toks, p + 1, LOWEST), LAMBDA first :
         parse_expression_list_loop(toks, first.pos, end, << first.val >>))

parse_expression_list_loop(toks, p, end, expr_list) ==
    IF peek_token_is(toks, p, "COMMA")
    THEN Try(parse_expression(toks, p + 2, LOWEST), LAMBDA next :
         parse_expression_list_loop(toks, next.pos, end, Append(expr_list, next.val)))
    ELSE Try(expect_peek(toks, p, end), LAMBDA close : Ok(expr_list, close.pos))

(***************************************************************************)
(* Parser::parse_program, one iteration of its loop per step.              *)
(***************************************************************************)
Parsing == presult.kind = "running"

ParseStatement ==
    /\ Parsing
    /\ ~current_token_is(parser.tokens, parser.pos, "EOF")
    /\ \E stmt \in { parse_statement(parser.tokens, parser.pos) } :
          CASE stmt.kind = "Ok" ->
                  /\ program' = Append(program, stmt.val)
                  /\ parser' = [parser EXCEPT !.pos = stmt.pos + 1]
                  /\ UNCHANGED presult
            [] stmt.kind = "Err" ->
                  /\ parser' = [parser EXCEPT !.pos = stmt.pos + 1,
                                              !.errors = Append(@, stmt.val)]
                  /\ UNCHANGED <<program, presult>>
            [] OTHER ->
                  /\ presult' = [kind |-> "panic", val |-> stmt.val]
                  /\ parser' = [parser EXCEPT !.pos = stmt.pos]
                  /\ UNCHANGED program
    /\ UNCHANGED <<source, cvars>>

ParseProgramReturn ==
    /\ Parsing
    /\ current_token_is(parser.tokens, parser.pos, "EOF")
    /\ presult' = IF parser.errors = <<>>
                  THEN [kind |-> "ok", val |-> program]
                  ELSE [kind |-> "err", val |-> parser.errors]
    /\ UNCHANGED <<parser, program, source, cvars>>

(***************************************************************************)
(* Specifications.                                                         *)
(***************************************************************************)
InitParser ==
    /\ parser = [tokens |-> <<>>, pos |-> 1, errors |-> <<>>]
    /\ program = <<>>
    /\ presult = [kind |-> "idle", val |-> <<>>]
    /\ source = <<>>

InitCompiler ==
    /\ compiler = new
    /\ stack = <<>>
    /\ error = NoError
    /\ result = [kind |-> "idle", msg |-> NoError]
    /\ calls = 0
    /\ nstmts = 0

InitSession == InitCompiler /\ InitParser

NextSession ==
    \/ Compile(MaxCalls)
    \/ CompileNextStmt(SessionStmts, MaxStmts)
    \/ CompileStep

SpecSession == InitSession /\ [][NextSession]_vars

NextControl ==
    \/ Compile(1)
    \/ CompileNextStmt(ControlStmts, MaxControlStmts)
    \/ CompileStep

SpecControl == InitSession /\ [][NextControl]_vars

NextPeephole ==
    \/ Compile(1)
    \/ CompileNextStmt(PeepholeStmts, MaxPeepholeStmts)
    \/ CompileStep

SpecPeephole == InitSession /\ [][NextPeephole]_vars

(***************************************************************************)
(* Properties of the compiler.                                             *)
(***************************************************************************)
IsPrefix(s, t) == Len(s) <= Len(t) /\ SubSeq(t, 1, Len(s)) = s
OpcodeAt(ins, pos) == cast_u8_to_opcode(ins[pos + 1])
Finished == result.kind \in {"ok", "err", "panic"}

\* C3: every compile error raised during a call is what the call returns: once the
\* call is over, an error raised in it (an undefined variable or an unsupported
\* operator, at any depth) is the Err the caller receives.
C3_CompileErrorsReturned ==
    (Finished /\ error # NoError) => result = [kind |-> "err", msg |-> error]

\* C4: in every state the symbol indices are dense (0 .. n-1 for n names) and no
\* two distinct names resolve to the same index.
C4_IndicesDenseUnique ==
    LET table == compiler.symbol_table
    IN  /\ \A a, b \in DOMAIN table : a # b => table[a] # table[b]
        /\ { table[a] : a \in DOMAIN table } = 0 .. (Cardinality(DOMAIN table) - 1)

IfDone == At("if_ret")
IfDoneNoElse == IfDone /\ Top.node.alternate = <<>>

\* C6 as stated: after an if without else, the conditional jump's operand is the
\* offset immediately after the push-null instruction and the unconditional jump's
\* operand is the buffer length.
C6_JumpsPastNull ==
    IfDoneNoElse =>
        LET ins == compiler.instructions
            null_pos == Top.jump_pos + 3
        IN  /\ OpcodeAt(ins, null_pos) = "OpNull"
            /\ ReadOperand(ins, Top.jump_not_truthy) = null_pos + 1
            /\ ReadOperand(ins, Top.jump_pos) = Len(ins)

\* C6 (amended): after an if without else, the conditional jump's operand is the
\* offset of the push-null instruction itself (the first byte after the
\* unconditional jump), and the unconditional jump's operand is the buffer length,
\* which is the offset immediately after the push-null.
C6_JumpsToNull ==
    IfDoneNoElse =>
        LET ins == compiler.instructions
            null_pos == Top.jump_pos + 3
        IN  /\ OpcodeAt(ins, Top.jump_not_truthy) = "OpJumpNotTruthy"
            /\ OpcodeAt(ins, Top.jump_pos) = "OpJump"
            /\ OpcodeAt(ins, null_pos) = "OpNull"
            /\ ReadOperand(ins, Top.jump_not_truthy) = null_pos
            /\ ReadOperand(ins, Top.jump_pos) = null_pos + 1
            /\ Len(ins) = null_pos + 1

\* C6 witness: an if without else has just been compiled, nested in another if.
C6_Witness == IfDoneNoElse /\ \E k \in 1..(Len(stack) - 1) : stack[k].pc = "if_cons"

(***************************************************************************)
(* Emission order of an infix expression statement (C8).                   *)
(***************************************************************************)
IsLeaf(e) == e.t \in {"Integer", "Boolean", "IDENTIFIER"}

\* the code of a leaf operand whose constant, if any, has pool index k
LeafCode(e, k) ==
    CASE e.t = "Integer" -> make_instructions("OpConst", << k >>)
      [] e.t = "Boolean" -> make_instructions(IF e.raw THEN "OpTrue" ELSE "OpFalse", <<>>)
      [] e.t = "IDENTIFIER" ->
            make_instructions("OpGetGlobal", << compiler.symbol_table[e.name] >>)

LeafConstants(e) == IF e.t = "Integer" THEN << << "Integer", e.raw >> >> ELSE <<>>

OperatorOpcode ==
    [ PLUS |-> "OpAdd", MINUS |-> "OpSub", ASTERISK |-> "OpMul", SLASH |-> "OpDiv",
      GT |-> "OpGreaterThan", LT |-> "OpGreaterThan", EQ |-> "OpEqual",
      NotEq |-> "OpNotEqual" ]

Suffix(s, n) == SubSeq(s, Len(s) - n + 1, Len(s))

\* the statement compile has just gone through, when it is an infix expression
\* statement over two leaf operands
InfixStmtDone ==
    /\ At("compile")
    /\ Len(Top.node) >= 1
    /\ LET s == Top.node[Len(Top.node)]
       IN  /\ s.t = "Expr"
           /\ s.expr.t = "INFIX"
           /\ IsLeaf(s.expr.left)
           /\ IsLeaf(s.expr.right)

\* C8: when an infix expression statement over leaf operands has been compiled, the
\* buffer ends with the code of the left operand, the code of the right operand,
\* the operator's opcode and pop, and the pool ends with the operands' constants
\* in that order; for < the two operands are taken in the opposite order (right
\* first, so its constant has the lower index) and the opcode is greater-than.
C8_InfixEmissionOrder ==
    InfixStmtDone =>
        LET e == Top.node[Len(Top.node)].expr
            first == IF e.op = "LT" THEN e.right ELSE e.left
            second == IF e.op = "LT" THEN e.left ELSE e.right
            pool == LeafConstants(first) \o LeafConstants(second)
            base == Len(compiler.constants) - Len(pool)
            code == LeafCode(first, base)
                    \o LeafCode(second, base + Len(LeafConstants(first)))
                    \o make_instructions(OperatorOpcode[e.op], <<>>)
                    \o make_instructions("OpPop", <<>>)
        IN  /\ Len(compiler.instructions) >= Len(code)
            /\ Suffix(compiler.instructions, Len(code)) = code
            /\ base >= 0
            /\ Suffix(compiler.constants, Len(pool)) = pool

\* C8 witnesses: 1 < 2 as the second statement of a program, and 1 - 2.
C8_Witness ==
    /\ InfixStmtDone
    /\ Len(Top.node) = 2
    /\ Top.node[2].expr.op = "LT"
    /\ Top.node[2].expr.left = IntLit(1)
    /\ Top.node[2].expr.right = IntLit(2)
    /\ Top.node[1].expr = Infix("MINUS", IntLit(1), IntLit(2))

(***************************************************************************)
(* The operand stack along the paths of an if-expression (C9).  The stack  *)
(* effect of each opcode is that of the stack machine the bytecode is for. *)
(***************************************************************************)
StackEffect(op, operand) ==
    CASE op \in {"OpConst", "OpTrue", "OpFalse", "OpNull", "OpGetGlobal"} -> 1
      [] op \in {"OpPop", "OpSetGlobal", "OpJumpNotTruthy"} -> -1
      [] op \in {"OpAdd", "OpSub", "OpMul", "OpDiv", "OpEqual", "OpNotEqual",
                 "OpGreaterThan"} -> -1
      [] op \in {"OpArray", "OpHash"} -> 1 - operand
      [] OTHER -> 0

RECURSIVE StackDepths(_, _, _)
\* the operand stack depths with which execution from offset pc at depth d can
\* reach the end of ins, over both outcomes of every conditional jump
StackDepths(ins, pc, d) ==
    IF pc >= Len(ins) THEN {d}
    ELSE LET op == OpcodeAt(ins, pc)
         IN  CASE op = "OpJump" -> StackDepths(ins, ReadOperand(ins, pc), d)
               [] op = "OpJumpNotTruthy" ->
                     StackDepths(ins, pc + 3, d - 1)
                     \cup StackDepths(ins, ReadOperand(ins, pc), d - 1)
               [] OperandWidth(op) = 2 ->
                     StackDepths(ins, pc + 3, d + StackEffect(op, ReadOperand(ins, pc)))
               [] OTHER -> StackDepths(ins, pc + 1, d + StackEffect(op, 0))

\* an if-expression that is the expression of a program's first statement has just
\* been compiled: its code is the whole buffer
FirstIfDone == IfDone /\ Len(stack) = 3 /\ Len(stack[1].node) = 1

\* C9: the code of an if-expression leaves exactly one value on the operand stack
\* along every path through it.
C9_IfYieldsOneValue ==
    FirstIfDone => StackDepths(compiler.instructions, 0, 0) = {1}

(***************************************************************************)
(* Backpatching (C10).                                                     *)
(***************************************************************************)
C10_Patched ==
    IfDone =>
        LET ins == compiler.instructions
        IN  /\ OpcodeAt(ins, Top.jump_not_truthy) = "OpJumpNotTruthy"
            /\ OpcodeAt(ins, Top.jump_pos) = "OpJump"
            /\ ReadOperand(ins, Top.jump_not_truthy) = Top.jump_pos + 3
            /\ ReadOperand(ins, Top.jump_pos) = Len(ins)
            /\ ReadOperand(ins, Top.jump_not_truthy) # Placeholder
            /\ ReadOperand(ins, Top.jump_pos) # Placeholder

EndsWithExpr(block) == block # <<>> /\ block[Len(block)].t = "Expr"

\* a branch whose final statement is an expression statement has just been compiled
ConsequentDone == At("if_cons") /\ EndsWithExpr(Top.node.consequent)
AlternateDone == At("if_alt") /\ EndsWithExpr(Top.node.alternate[1])

C10_PopDropped ==
    LET ins == compiler.instructions
        kept == SubSeq(ins, 1, Len(ins) - 1)
        slot == {Top.jump_not_truthy + 2, Top.jump_not_truthy + 3}
    IN  /\ ConsequentDone =>
              /\ ins[Len(ins)] = OpcodeByte("OpPop")
              /\ stack'[Len(stack)].jump_pos = Len(kept)
              /\ OpcodeAt(compiler'.instructions, Len(kept)) = "OpJump"
              /\ \A k \in (1..Len(kept)) \ slot : compiler'.instructions[k] = kept[k]
        /\ AlternateDone =>
              /\ ins[Len(ins)] = OpcodeByte("OpPop")
              /\ compiler'.instructions = kept

\* C10: when an if-expression (at any depth) has been compiled, its conditional
\* jump's operand is the offset just after its unconditional jump, its
\* unconditional jump's operand is the buffer length, neither is the placeholder;
\* and the pop that ends a branch whose final statement is an expression statement
\* is taken off the buffer by the step that follows the branch.
C10_Backpatching == []C10_Patched /\ [][C10_PopDropped]_vars

\* C10 witness: an if/else nested in a branch of another if has just been compiled.
C10_Witness ==
    /\ IfDone
    /\ Top.node.alternate # <<>>
    /\ EndsWithExpr(Top.node.consequent)
    /\ EndsWithExpr(Top.node.alternate[1])
    /\ \E k \in 1..(Len(stack) - 1) : stack[k].pc \in {"if_cons", "if_alt"}

(***************************************************************************)
(* A jump patch is an overwrite in place (C11).                            *)
(***************************************************************************)
\* the operand bytes of the instruction at byte offset pos
OperandSlot(pos) == {pos + 2, pos + 3}

\* buffer `after` is buffer `before` with at most the operand of the instruction
\* at offset pos overwritten
InPlace(before, after, pos) ==
    /\ pos + 3 <= Len(before)
    /\ Len(after) = Len(before)
    /\ after[pos + 1] = before[pos + 1]
    /\ \A k \in (1..Len(before)) \ OperandSlot(pos) : after[k] = before[k]

\* the patch of the unconditional jump is a step of its own
JumpPatch ==
    /\ InPlace(compiler.instructions, compiler'.instructions, Top.jump_pos)
    /\ compiler' = [compiler EXCEPT !.instructions = compiler'.instructions]
    /\ \A k \in 1..Len(stack) : stack'[k].jump_pos = stack[k].jump_pos
    /\ \A k \in 1..Len(stack) : stack'[k].jump_not_truthy = stack[k].jump_not_truthy

\* the patch of the conditional jump follows the emission of the unconditional
\* jump and comes before anything else is emitted
JumpNotTruthyPatch ==
    LET before == emit(AfterBlock(compiler), "OpJump", << Placeholder >>).instructions
    IN  /\ Len(compiler'.instructions) >= Len(before)
        /\ InPlace(before, SubSeq(compiler'.instructions, 1, Len(before)),
                   Top.jump_not_truthy)

C11_PatchStep ==
    /\ At("if_patch") => JumpPatch
    /\ At("if_cons") => JumpNotTruthyPatch

\* C11: change_operand(pos, target) leaves the length of the instruction buffer,
\* the opcode byte at pos and every byte outside pos+1..pos+2 as they were, and
\* touches nothing else of the compiler, so the offsets recorded before the patch
\* denote the same instructions after it.
C11_PatchInPlace == [][C11_PatchStep]_vars

\* C11 witness: the unconditional jump of an if nested in another if has been
\* patched: its operand is no longer the placeholder, and instructions precede it.
C11_Witness ==
    /\ IfDone
    /\ Top.jump_not_truthy > 0
    /\ ReadOperand(compiler.instructions, Top.jump_pos) = Len(compiler.instructions)
    /\ \E k \in 1..(Len(stack) - 1) : stack[k].pc \in {"if_cons", "if_alt"}

(***************************************************************************)
(* Let: the initializer first, then the name (C12).                        *)
(***************************************************************************)
\* the activations of let statements whose initializer is being compiled or has
\* failed
OpenLets ==
    { k \in 1..Len(stack) :
         stack[k].pc = "let_define" /\ (k < Len(stack) \/ error # NoError) }

\* the initializer of a let statement has failed
LetInitializerFailed == error # NoError /\ OpenLets # {}

\* a failed initializer makes compile return Err
C12_FailureReturned == LetInitializerFailed => result.kind # "panic"

\* until the initializer is done the name's entry is as it was and no store-global
\* is emitted; nothing interned is taken back
C12_NameUntouched ==
    /\ IsPrefix(compiler.constants, compiler'.constants)
    /\ \A k \in OpenLets :
          LET n == stack[k].node.identifier
              before == compiler.symbol_table
              after == compiler'.symbol_table
          IN  /\ Resolves(after, n) <=> Resolves(before, n)
              /\ Resolves(before, n) => after[n] = before[n]
              /\ Len(compiler'.instructions) > Len(compiler.instructions) =>
                    OpcodeAt(compiler'.instructions, Len(compiler.instructions))
                        # "OpSetGlobal"

\* once the initializer is compiled the name is defined and store-global is
\* emitted with the index define gave it
C12_StoreAfterDefine ==
    At("let_define") =>
        LET n == Top.node.identifier
        IN  /\ compiler'.symbol_table = define(compiler.symbol_table, n)
            /\ compiler'.instructions =
                  compiler.instructions
                  \o make_instructions("OpSetGlobal", << compiler'.symbol_table[n] >>)
            /\ compiler'.constants = compiler.constants

\* what a let statement does to the compiler, step by step
C12_FrameEffect == [][C12_NameUntouched /\ C12_StoreAfterDefine]_vars

\* C12: a let statement compiles its initializer before it defines the name; when
\* the initializer fails, compile returns Err, the name is not added to the symbol
\* table, no store-global is emitted and the constants interned so far stay in the
\* pool; when it succeeds, store-global's operand is the index define returned.
C12_LetInitializerFirst == []C12_FailureReturned /\ C12_FrameEffect

(***************************************************************************)
(* A return statement compiles to nothing (C13).                           *)
(***************************************************************************)
C13_ReturnStep ==
    AtStmt("Return") =>
        /\ compiler'.instructions = compiler.instructions
        /\ compiler'.constants = compiler.constants
        /\ compiler'.symbol_table = compiler.symbol_table
        /\ compiler'.last_instruction = compiler.last_instruction
        /\ compiler'.previous_instruction = compiler.previous_instruction
        /\ stack' = Popped
        /\ error' = NoError
        /\ result' = result

\* C13: compile_stmt on a return statement, whatever its value expression, returns
\* Ok at once and leaves the instruction buffer, the constant pool, the symbol
\* table and the last/previous instruction tracker as they were.
C13_ReturnIsNoOp == [][C13_ReturnStep]_vars

\* C13 witness: a return of an undefined variable has been compiled after other
\* statements that emitted instructions and interned constants, and compile goes on.
C13_Witness ==
    /\ At("compile")
    /\ Len(Top.node) >= 2
    /\ Top.node[Len(Top.node)] = Return(Ident("y"))
    /\ ~Resolves(compiler.symbol_table, "y")
    /\ compiler.instructions # <<>>
    /\ compiler.constants # <<>>

(***************************************************************************)
(* The last/previous instruction tracker (C14).                            *)
(***************************************************************************)
RECURSIVE InstructionStarts(_, _)
\* the offsets at which the instructions of ins from offset pc on begin; -1 stands
\* for a byte that is no opcode or an instruction cut short by the end of ins
InstructionStarts(ins, pc) ==
    IF pc >= Len(ins) THEN {}
    ELSE IF ins[pc + 1] + 1 \notin DOMAIN Opcodes THEN {-1}
    ELSE IF pc + 1 + OperandWidth(OpcodeAt(ins, pc)) > Len(ins) THEN {-1}
    ELSE {pc} \cup InstructionStarts(ins, pc + 1 + OperandWidth(OpcodeAt(ins, pc)))

\* last_instruction is the final instruction of a non-empty buffer
TrackerNamesLast ==
    LET ins == compiler.instructions
        last == compiler.last_instruction
    IN  ins # <<>> =>
            /\ last.position < Len(ins)
            /\ OpcodeAt(ins, last.position) = last.opcode
            /\ last.position + 1 + OperandWidth(last.opcode) = Len(ins)

\* the buffer is whole instructions and the tracker names the one that ends it
C14_Tracker ==
    LET starts == InstructionStarts(compiler.instructions, 0)
    IN  /\ -1 \notin starts
        /\ TrackerNamesLast
        /\ compiler.instructions # <<>> => compiler.last_instruction.position \in starts

\* the step about to be taken calls remove_last_pop
RemovesLastPop ==
    (At("if_cons") \/ At("if_alt")) /\ last_instruction_is(compiler, "OpPop")

\* a step of one compile call keeps every instruction of the buffer where it was,
\* with its opcode, but for the pop that remove_last_pop takes off the end
C14_OnlyPopDeleted ==
    calls' = calls =>
        LET ins == compiler.instructions
            kept == IF RemovesLastPop THEN Len(ins) - 1 ELSE Len(ins)
            before == { p \in InstructionStarts(ins, 0) : p < kept }
        IN  /\ RemovesLastPop =>
                  /\ ins # <<>>
                  /\ ins[Len(ins)] = OpcodeByte("OpPop")
                  /\ Len(ins) - 1 \in InstructionStarts(ins, 0)
            /\ Len(compiler'.instructions) >= kept
            /\ before \subseteq InstructionStarts(compiler'.instructions, 0)
            /\ \A p \in before :
                  OpcodeAt(compiler'.instructions, p) = OpcodeAt(ins, p)

\* C14: in every state reached while compiling, last_instruction names the opcode
\* and the start offset of the final instruction of a non-empty buffer and the
\* buffer is a concatenation of whole instructions; the byte remove_last_pop
\* deletes is a pop opcode byte, and no other emitted instruction is ever deleted.
C14_PeepholeTracker == []C14_Tracker /\ [][C14_OnlyPopDeleted]_vars

\* C14 witness: remove_last_pop has just taken the pop off the end of the alternate
\* block of an if and the tracker has fallen back on the previous instruction.
C14_Witness ==
    /\ At("if_patch")
    /\ Top.node.alternate # <<>>
    /\ EndsWithExpr(Top.node.alternate[1])
    /\ compiler.last_instruction = compiler.previous_instruction
    /\ compiler.last_instruction.position > Top.jump_pos

(***************************************************************************)
(* The inputs of the parser: a source is a sequence of statements, each    *)
(* with its tokens and, when it is malformed, the syntax error it holds.   *)
(***************************************************************************)
Id(n) == Tok("IDENTIFIER", n)
Num(i) == Tok("INT", i)
Kw(kind) == Tok(kind, "")
Stmt(toks, err) == [toks |-> toks, err |-> err]

WellFormed ==
    { Stmt(<< Kw("LET"), Id("x"), Kw("ASSIGN"), Num(5), Kw("SEMICOLON") >>, <<>>),
      Stmt(<< Id("x"), Kw("PLUS"), Num(5), Kw("SEMICOLON") >>, <<>>),
      Stmt(<< Kw("RETURN"), Kw("BANG"), Kw("TRUE"), Kw("SEMICOLON") >>, <<>>),
      Stmt(<< Kw("IF"), Kw("LPAREN"), Id("x"), Kw("RPAREN"), Kw("LBRACE"), Num(5),
              Kw("RBRACE"), Kw("ELSE"), Kw("LBRACE"), Id("y"), Kw("RBRACE") >>, <<>>),
      Stmt(<< Kw("FUNCTION"), Kw("LPAREN"), Id("x"), Kw("COMMA"), Id("y"), Kw("RPAREN"),
              Kw("LBRACE"), Id("x"), Kw("RBRACE"), Kw("LPAREN"), Num(1), Kw("COMMA"),
              Num(2), Kw("RPAREN"), Kw("SEMICOLON") >>, <<>>),
      Stmt(<< Kw("LBRACKET"), Num(1), Kw("COMMA"), Kw("LPAREN"), Tok("STRING", "s"),
              Kw("RPAREN"), Kw("RBRACKET"), Kw("SEMICOLON") >>, <<>>) }

Malformed ==
    { Stmt(<< Kw("LET"), Id("x"), Num(5), Kw("SEMICOLON") >>,
           << "expected token", "ASSIGN", Num(5) >>),
      Stmt(<< Kw("LET"), Kw("ASSIGN"), Num(5), Kw("SEMICOLON") >>,
           << "not an identifier" >>),
      Stmt(<< Kw("LET"), Id("x"), Kw("ASSIGN"), Kw("SEMICOLON") >>,
           << "no prefix function for token", Kw("SEMICOLON") >>),
      Stmt(<< Num(5), Kw("PLUS"), Kw("SEMICOLON") >>,
           << "no prefix function for token", Kw("SEMICOLON") >>),
      Stmt(<< Kw("IF"), Kw("LPAREN"), Id("x"), Kw("RPAREN"), Kw("LBRACE"), Kw("LET"),
              Num(5), Kw("RBRACE") >>,
           << "not an identifier" >>),
      Stmt(<< Kw("FUNCTION"), Kw("LPAREN"), Kw("RPAREN"), Kw("LBRACE"), Kw("RETURN"),
              Kw("SEMICOLON"), Kw("RBRACE"), Kw("SEMICOLON") >>,
           << "no prefix function for token", Kw("SEMICOLON") >>),
      Stmt(<< Kw("LPAREN"), Num(5), Kw("SEMICOLON") >>,
           << "expected token", "RPAREN", Kw("SEMICOLON") >>),
      Stmt(<< Kw("FUNCTION"), Kw("LPAREN"), Num(5), Kw("RPAREN"), Kw("SEMICOLON") >>,
           << "expected function params to be an identifier", Num(5) >>) }

RECURSIVE Lex(_)
Lex(src) == IF src = <<>> THEN <<>> ELSE Head(src).toks \o Lex(Tail(src))

Sources == UNION { [1..n -> WellFormed \cup Malformed] : n \in 1..MaxSource }

\* expressions over identifiers, unary - and ! and the binary operators
OperandNames == << "a", "b", "c", "d", "e", "f" >>
FirstPrefixes == { <<>>, << Kw("MINUS") >>, << Kw("BANG") >>, << Kw("BANG"), Kw("MINUS") >> }
LaterPrefixes == { <<>>, << Kw("MINUS") >> }

RECURSIVE OperatorExpression(_, _, _)
\* the tokens of  pre[1] a ops[1] pre[2] b ops[2] ...  from operand i on
OperatorExpression(ops, pre, i) ==
    pre[i] \o << Id(OperandNames[i]) >>
    \o (IF i > Len(ops) THEN <<>>
        ELSE << Kw(ops[i]) >> \o OperatorExpression(ops, pre, i + 1))

(***************************************************************************)
(* Specifications of the parser: Parser::new, then parse_program.          *)
(***************************************************************************)
ParserNew(toks) == [tokens |-> toks, pos |-> 1, errors |-> <<>>]

InitParse ==
    /\ InitCompiler
    /\ source \in Sources
    /\ parser = ParserNew(Lex(source))
    /\ program = <<>>
    /\ presult = [kind |-> "running", val |-> <<>>]

NextParse == ParseStatement \/ ParseProgramReturn

SpecParse == InitParse /\ [][NextParse]_vars

InitExpr ==
    /\ InitCompiler
    /\ \E n \in 0..MaxOps :
          \E ops \in [1..n -> InfixOperators], first \in FirstPrefixes,
             later \in [1..n -> LaterPrefixes] :
             LET toks == OperatorExpression(ops, << first >> \o later, 1)
             IN  /\ source = << Stmt(toks, <<>>) >>
                 /\ parser = ParserNew(toks)
    /\ program = <<>>
    /\ presult = [kind |-> "running", val |-> <<>>]

SpecExpr == InitExpr /\ [][NextParse]_vars

(***************************************************************************)
(* Properties of the parser.                                               *)
(***************************************************************************)
Parsed == presult.kind \in {"ok", "err", "panic"}
MalformedIn(src) == { i \in 1..Len(src) : src[i].err # <<>> }
Range(s) == { s[i] : i \in 1..Len(s) }

\* C1: the error list parse_program returns for a token stream with k >= 1
\* malformed statements has exactly k elements, one per malformed statement.
C1_OneErrorPerMalformedStatement ==
    (presult.kind = "err" /\ MalformedIn(source) # {}) =>
        Len(presult.val) = Cardinality(MalformedIn(source))

\* C2: the syntax error of every malformed statement, wherever in the input it is
\* met, is in the error list parse returns: parse does not return Ok and does not
\* panic.
C2_EveryErrorCollected ==
    Parsed =>
        \A i \in MalformedIn(source) :
            /\ presult.kind = "err"
            /\ source[i].err \in Range(presult.val)

(***************************************************************************)
(* Precedence (C7).                                                        *)
(***************************************************************************)
Tier ==
    [ EQ |-> 1, NotEq |-> 1, LT |-> 2, GT |-> 2, PLUS |-> 3, MINUS |-> 3,
      ASTERISK |-> 4, SLASH |-> 4 ]

RECURSIVE Yield(_)
\* the tokens of an expression, in order
Yield(e) ==
    CASE e.t = "IDENTIFIER" -> << Id(e.name) >>
      [] e.t = "PREFIX" -> << Kw(e.op) >> \o Yield(e.operand)
      [] e.t = "INFIX" -> Yield(e.left) \o << Kw(e.op) >> \o Yield(e.right)

RECURSIVE Grouped(_)
\* every operator's left operand binds at least as tightly as the operator, its
\* right operand strictly tighter, and a unary operator takes no binary operand
Grouped(e) ==
    CASE e.t = "IDENTIFIER" -> TRUE
      [] e.t = "PREFIX" -> e.operand.t # "INFIX" /\ Grouped(e.operand)
      [] e.t = "INFIX" ->
            /\ Grouped(e.left)
            /\ Grouped(e.right)
            /\ e.left.t = "INFIX" => Tier[e.left.op] >= Tier[e.op]
            /\ e.right.t = "INFIX" => Tier[e.right.op] > Tier[e.op]

\* C7: an expression over identifiers, unary - and ! and the binary operators
\* parses to the one tree over its tokens that groups by tier, with operators of
\* one tier grouped to the left.
C7_PrecedenceGrouping ==
    Parsed =>
        /\ presult.kind = "ok"
        /\ Len(program) = 1
        /\ program[1].t = "Expr"
        /\ Yield(program[1].expr) = parser.tokens
        /\ Grouped(program[1].expr)

\* C7 witness: !-a > b == c < -d has been parsed as (((!(-a)) > b) == (c < (-d))).
C7_Witness ==
    /\ presult.kind = "ok"
    /\ program = << Expr(Infix("EQ",
                     Infix("GT", Prefix("BANG", Prefix("MINUS", Ident("a"))), Ident("b")),
                     Infix("LT", Ident("c"), Prefix("MINUS", Ident("d"))))) >>
====
